---- MODULE Spec2Model ----
(***************************************************************************)
(* Pricing computation and comparison engine of the Cloud Service Pricing  *)
(* Simulator (src/src/utils.py, and the Streamlit script src/src/app.py    *)
(* that drives it).                                                        *)
(*                                                                         *)
(* A pandas DataFrame is a record [columns, rows]: the set of its column   *)
(* labels and the sequence of its rows, each row a function from the       *)
(* column labels to cell values.  A row "has" a field exactly when the     *)
(* label is a column of its frame (the code tests this with `in`).         *)
(* Python floats are modelled as exact rationals <<n, d>> in lowest terms, *)
(* with float('inf') as <<1, 0>>.                                          *)
(***************************************************************************)
EXTENDS Integers, Sequences, FiniteSets, TLC

VARIABLES
    pricing_df,     \* the catalog loaded by load_pricing_data (app.py:84)
    filtered_df,    \* the sidebar-filtered subset (app.py:99-105)
    op,             \* name of the operation executed last
    args,           \* the arguments it was called with
    result,         \* its outcome: a returned value or a raised exception
    processed       \* selected services the simulator's loop has been through

vars == <<pricing_df, filtered_df, op, args, result, processed>>

----------------------------------------------------------------------------
(* Python values *)

None == "None"
NaN == "NaN"

\* Python truthiness of an Optional[str] argument
Truthy(x) == x # None /\ x # ""

Return(v) == [kind |-> "return", value |-> v]
Raise(e) == [kind |-> "raise", exc |-> e]

----------------------------------------------------------------------------
(* float arithmetic, as exact rationals *)

Abs(x) == IF x < 0 THEN -x ELSE x

RECURSIVE GCD(_, _)
GCD(a, b) == IF b = 0 THEN a ELSE GCD(b, a % b)

\* the rational n/d, d > 0, in lowest terms; 0/0 is the float nan
R(n, d) ==
    IF n = 0 /\ d = 0 THEN <<0, 0>>
    ELSE LET g == GCD(Abs(n), Abs(d))
             s == IF d < 0 THEN -1 ELSE 1
         IN  <<s * (n \div g), s * (d \div g)>>

Float(i) == R(i, 1)
Inf == <<1, 0>>
\* the float nan: what pandas puts in a blank numeric cell; it propagates
\* through arithmetic and every comparison with it is False
FNaN == <<0, 0>>

FMul(a, b) == R(a[1] * b[1], a[2] * b[2])
FDiv(a, b) == R(a[1] * b[2], a[2] * b[1])
FSub(a, b) == R(a[1] * b[2] - b[1] * a[2], a[2] * b[2])
FAdd(a, b) == R(a[1] * b[2] + b[1] * a[2], a[2] * b[2])
FLt(a, b) == a[1] * b[2] < b[1] * a[2]
FLe(a, b) == (a = b /\ a # FNaN) \/ FLt(a, b)
FGt(a, b) == FLt(b, a)

----------------------------------------------------------------------------
(* DataFrames *)

RequiredColumns ==
    {"Provider", "Service", "Instance Type", "Region", "Usage Type",
     "Price Per Unit", "Units", "Currency"}

OptionalColumns ==
    {"Performance Score", "Availability",
     "Reserved Discount 1yr", "Reserved Discount 3yr"}

\* pd.DataFrame()
EmptyFrame == [columns |-> {}, rows |-> <<>>]

\* df.empty
IsEmpty(df) == df.columns = {} \/ df.rows = <<>>

\* df[df[col] == v]: NaN cells compare unequal to everything
SelectEq(df, col, v) ==
    [columns |-> df.columns,
     rows |-> SelectSeq(df.rows, LAMBDA row: row[col] # NaN /\ row[col] = v)]

\* stable insertion of row into rows, already sorted ascending by col
RECURSIVE InsertSorted(_, _, _)
InsertSorted(rows, row, col) ==
    IF rows = <<>> THEN <<row>>
    ELSE IF FLt(row[col], rows[Len(rows)][col])
         THEN Append(InsertSorted(SubSeq(rows, 1, Len(rows) - 1), row, col),
                     rows[Len(rows)])
         ELSE Append(rows, row)

RECURSIVE SortRows(_, _)
SortRows(rows, col) ==
    IF rows = <<>> THEN <<>>
    ELSE InsertSorted(SortRows(SubSeq(rows, 1, Len(rows) - 1), col),
                      rows[Len(rows)], col)

\* df.sort_values(col): ascending; a label that is no column raises KeyError
sort_values(df, col) ==
    IF col \notin df.columns THEN Raise("KeyError")
    ELSE Return([columns |-> df.columns, rows |-> SortRows(df.rows, col)])

\* pd.DataFrame(results) for a list of dicts that share their keys
FrameOf(results) ==
    IF results = <<>> THEN EmptyFrame
    ELSE [columns |-> DOMAIN results[1], rows |-> results]

----------------------------------------------------------------------------
(* src/src/utils.py *)


\* faulty variant: a day is taken as 1/31 of a month
calculate_cost_Day31(usage, price_per_unit, time_period) ==
    LET cost == FMul(usage, price_per_unit)
    IN  IF time_period = "day" THEN FDiv(cost, Float(31))
        ELSE IF time_period = "year" THEN FMul(cost, Float(12))
        ELSE cost

calculate_cost(usage, price_per_unit, time_period) ==
    LET cost == FMul(usage, price_per_unit)
    IN  IF time_period = "day" THEN FDiv(cost, Float(30))
        ELSE IF time_period = "year" THEN FMul(cost, Float(12))
        ELSE cost


\* faulty variant: the discounted cost is clamped at zero
apply_reserved_discount_Clamped(cost, discount_percentage) ==
    LET discounted == FMul(cost, FSub(Float(1), FDiv(discount_percentage, Float(100))))
    IN  IF FLt(discounted, Float(0)) THEN Float(0) ELSE discounted

apply_reserved_discount(cost, discount_percentage) ==
    FMul(cost, FSub(Float(1), FDiv(discount_percentage, Float(100))))


\* faulty variant: the 1yr discount is applied whatever the reservation term
calculate_total_cost_AnyTerm(pricing_row, usage, time_period, reserved_instance) ==
    LET base_cost == calculate_cost(usage, pricing_row["Price Per Unit"], time_period)
        use1yr == "Reserved Discount 1yr" \in DOMAIN pricing_row
        discount == IF use1yr THEN pricing_row["Reserved Discount 1yr"] ELSE Float(0)
    IN  [base_cost |-> base_cost,
         discount_percentage |-> discount,
         final_cost |-> IF use1yr THEN apply_reserved_discount(base_cost, discount)
                        ELSE base_cost,
         currency |-> pricing_row["Currency"],
         time_period |-> time_period]

\* faulty variant: each term reads the other term's discount field
calculate_total_cost_SwappedFields(pricing_row, usage, time_period, reserved_instance) ==
    LET base_cost == calculate_cost(usage, pricing_row["Price Per Unit"], time_period)
        use1yr == reserved_instance = "1yr"
                  /\ "Reserved Discount 3yr" \in DOMAIN pricing_row
        use3yr == ~use1yr /\ reserved_instance = "3yr"
                  /\ "Reserved Discount 1yr" \in DOMAIN pricing_row
        discount == IF use1yr THEN pricing_row["Reserved Discount 3yr"]
                    ELSE IF use3yr THEN pricing_row["Reserved Discount 1yr"]
                    ELSE Float(0)
    IN  [base_cost |-> base_cost,
         discount_percentage |-> discount,
         final_cost |-> IF use1yr \/ use3yr
                        THEN apply_reserved_discount(base_cost, discount)
                        ELSE base_cost,
         currency |-> pricing_row["Currency"],
         time_period |-> time_period]

calculate_total_cost(pricing_row, usage, time_period, reserved_instance) ==
    LET base_cost == calculate_cost(usage, pricing_row["Price Per Unit"], time_period)
        use1yr == reserved_instance = "1yr"
                  /\ "Reserved Discount 1yr" \in DOMAIN pricing_row
        use3yr == ~use1yr /\ reserved_instance = "3yr"
                  /\ "Reserved Discount 3yr" \in DOMAIN pricing_row
        discount == IF use1yr THEN pricing_row["Reserved Discount 1yr"]
                    ELSE IF use3yr THEN pricing_row["Reserved Discount 3yr"]
                    ELSE Float(0)
        final_cost == IF use1yr \/ use3yr
                      THEN apply_reserved_discount(base_cost, discount)
                      ELSE base_cost
    IN  [base_cost |-> base_cost,
         discount_percentage |-> discount,
         final_cost |-> final_cost,
         currency |-> pricing_row["Currency"],
         time_period |-> time_period]


\* faulty variant: "All" is matched against the data like any other value
filter_pricing_data_AllLiteral(df, provider, service, instance_type, region, usage_type) ==
    LET f1 == IF Truthy(provider) THEN SelectEq(df, "Provider", provider) ELSE df
        f2 == IF Truthy(service) THEN SelectEq(f1, "Service", service) ELSE f1
        f3 == IF Truthy(instance_type)
              THEN SelectEq(f2, "Instance Type", instance_type) ELSE f2
        f4 == IF Truthy(region) THEN SelectEq(f3, "Region", region) ELSE f3
        f5 == IF Truthy(usage_type)
              THEN SelectEq(f4, "Usage Type", usage_type) ELSE f4
    IN  f5

filter_pricing_data(df, provider, service, instance_type, region, usage_type) ==
    LET Constrains(v) == Truthy(v) /\ v # "All"
        f1 == IF Constrains(provider) THEN SelectEq(df, "Provider", provider) ELSE df
        f2 == IF Constrains(service) THEN SelectEq(f1, "Service", service) ELSE f1
        f3 == IF Constrains(instance_type)
              THEN SelectEq(f2, "Instance Type", instance_type) ELSE f2
        f4 == IF Constrains(region) THEN SelectEq(f3, "Region", region) ELSE f3
        f5 == IF Constrains(usage_type)
              THEN SelectEq(f4, "Usage Type", usage_type) ELSE f4
    IN  f5


\* faulty variant: the 3yr discount is taken off the 1yr cost
ComparisonRow_Compounded(row, usage_amount) ==
    LET on_demand_cost == calculate_cost(usage_amount, row["Price Per Unit"], "month")
        reserved_1yr_cost ==
            IF "Reserved Discount 1yr" \in DOMAIN row
            THEN apply_reserved_discount(on_demand_cost, row["Reserved Discount 1yr"])
            ELSE on_demand_cost
        reserved_3yr_cost ==
            IF "Reserved Discount 3yr" \in DOMAIN row
            THEN apply_reserved_discount(reserved_1yr_cost, row["Reserved Discount 3yr"])
            ELSE reserved_1yr_cost
    IN  [c \in {"Provider", "Service", "Region", "On-Demand Cost",
                "1-Year Reserved Cost", "3-Year Reserved Cost", "Currency",
                "Performance Score", "Availability"} |->
            CASE c = "On-Demand Cost" -> on_demand_cost
              [] c = "1-Year Reserved Cost" -> reserved_1yr_cost
              [] c = "3-Year Reserved Cost" -> reserved_3yr_cost
              [] c \in {"Performance Score", "Availability"} ->
                    IF c \in DOMAIN row THEN row[c] ELSE None
              [] OTHER -> row[c]]

\* faulty variant: each reserved cost takes the other term's discount
ComparisonRow_SwappedTerms(row, usage_amount) ==
    LET on_demand_cost == calculate_cost(usage_amount, row["Price Per Unit"], "month")
        reserved_1yr_cost ==
            IF "Reserved Discount 3yr" \in DOMAIN row
            THEN apply_reserved_discount(on_demand_cost, row["Reserved Discount 3yr"])
            ELSE on_demand_cost
        reserved_3yr_cost ==
            IF "Reserved Discount 1yr" \in DOMAIN row
            THEN apply_reserved_discount(on_demand_cost, row["Reserved Discount 1yr"])
            ELSE on_demand_cost
    IN  [c \in {"Provider", "Service", "Region", "On-Demand Cost",
                "1-Year Reserved Cost", "3-Year Reserved Cost", "Currency",
                "Performance Score", "Availability"} |->
            CASE c = "On-Demand Cost" -> on_demand_cost
              [] c = "1-Year Reserved Cost" -> reserved_1yr_cost
              [] c = "3-Year Reserved Cost" -> reserved_3yr_cost
              [] c \in {"Performance Score", "Availability"} ->
                    IF c \in DOMAIN row THEN row[c] ELSE None
              [] OTHER -> row[c]]

\* one dict of compare_providers' results list
ComparisonRow(row, usage_amount) ==
    LET on_demand_cost == calculate_cost(usage_amount, row["Price Per Unit"], "month")
        reserved_1yr_cost ==
            IF "Reserved Discount 1yr" \in DOMAIN row
            THEN apply_reserved_discount(on_demand_cost, row["Reserved Discount 1yr"])
            ELSE on_demand_cost
        reserved_3yr_cost ==
            IF "Reserved Discount 3yr" \in DOMAIN row
            THEN apply_reserved_discount(on_demand_cost, row["Reserved Discount 3yr"])
            ELSE on_demand_cost
    IN  [c \in {"Provider", "Service", "Region", "On-Demand Cost",
                "1-Year Reserved Cost", "3-Year Reserved Cost", "Currency",
                "Performance Score", "Availability"} |->
            CASE c = "On-Demand Cost" -> on_demand_cost
              [] c = "1-Year Reserved Cost" -> reserved_1yr_cost
              [] c = "3-Year Reserved Cost" -> reserved_3yr_cost
              [] c \in {"Performance Score", "Availability"} ->
                    IF c \in DOMAIN row THEN row[c] ELSE None
              [] OTHER -> row[c]]

\* faulty variant: the region filter is not applied
compare_providers_AnyRegion(df, service_type, usage_amount, region) ==
    LET filtered == SelectEq(df, "Usage Type", service_type)
    IN  IF IsEmpty(filtered) THEN EmptyFrame
        ELSE FrameOf([i \in 1..Len(filtered.rows) |->
                        ComparisonRow(filtered.rows[i], usage_amount)])

compare_providers(df, service_type, usage_amount, region) ==
    LET byType == SelectEq(df, "Usage Type", service_type)
        filtered == IF Truthy(region) /\ region # "All"
                    THEN SelectEq(byType, "Region", region) ELSE byType
    IN  IF IsEmpty(filtered) THEN EmptyFrame
        ELSE FrameOf([i \in 1..Len(filtered.rows) |->
                        ComparisonRow(filtered.rows[i], usage_amount)])


\* faulty variant: a zero score divides to a ratio of 0
PerformanceRow_ZeroRatio(row, usage_amount) ==
    LET cost == calculate_cost(usage_amount, row["Price Per Unit"], "month")
        performance_ratio ==
            IF FGt(row["Performance Score"], Float(0))
            THEN FDiv(cost, row["Performance Score"])
            ELSE Float(0)
    IN  [c \in {"Provider", "Service", "Region", "Cost", "Performance Score",
                "Price/Performance Ratio", "Currency"} |->
            CASE c = "Cost" -> cost
              [] c = "Price/Performance Ratio" -> performance_ratio
              [] OTHER -> row[c]]

\* one dict of get_performance_ratio's results list
PerformanceRow(row, usage_amount) ==
    LET cost == calculate_cost(usage_amount, row["Price Per Unit"], "month")
        performance_ratio ==
            IF FGt(row["Performance Score"], Float(0))
            THEN FDiv(cost, row["Performance Score"])
            ELSE Inf
    IN  [c \in {"Provider", "Service", "Region", "Cost", "Performance Score",
                "Price/Performance Ratio", "Currency"} |->
            CASE c = "Cost" -> cost
              [] c = "Price/Performance Ratio" -> performance_ratio
              [] OTHER -> row[c]]

\* faulty variant: the results are returned in input order
get_performance_ratio_Unsorted(df, usage_amount) ==
    IF "Performance Score" \notin df.columns THEN Return(EmptyFrame)
    ELSE Return(FrameOf([i \in 1..Len(df.rows) |->
                            PerformanceRow(df.rows[i], usage_amount)]))

get_performance_ratio(df, usage_amount) ==
    IF "Performance Score" \notin df.columns THEN Return(EmptyFrame)
    ELSE sort_values(FrameOf([i \in 1..Len(df.rows) |->
                                PerformanceRow(df.rows[i], usage_amount)]),
                     "Price/Performance Ratio")

----------------------------------------------------------------------------
(* src/src/app.py, the Cost Simulator's calculate block *)

\* faulty variant: a row that equals the lowest cost so far replaces it
RECURSIVE ScanRows_LastWins(_, _, _, _, _)
ScanRows_LastWins(rows, usage, time_period, reservation_type, acc) ==
    IF rows = <<>> THEN acc
    ELSE LET row == Head(rows)
             cost_info == calculate_total_cost(row, usage, time_period,
                                               reservation_type)
         IN  ScanRows_LastWins(Tail(rows), usage, time_period, reservation_type,
                      IF FLe(cost_info.final_cost, acc.min_cost)
                      THEN [min_cost |-> cost_info.final_cost,
                            min_cost_row |-> <<row>>,
                            currency |-> cost_info.currency]
                      ELSE acc)

\* app.py:315-326: the scan of service_rows for the lowest final cost; acc
\* holds min_cost, min_cost_row (<<>> for None) and currency
RECURSIVE ScanRows(_, _, _, _, _)
ScanRows(rows, usage, time_period, reservation_type, acc) ==
    IF rows = <<>> THEN acc
    ELSE LET row == Head(rows)
             cost_info == calculate_total_cost(row, usage, time_period,
                                               reservation_type)
         IN  ScanRows(Tail(rows), usage, time_period, reservation_type,
                      IF FLt(cost_info.final_cost, acc.min_cost)
                      THEN [min_cost |-> cost_info.final_cost,
                            min_cost_row |-> <<row>>,
                            currency |-> cost_info.currency]
                      ELSE acc)

\* the loop body with one fault of the named kind put in
SimulateServiceWith(locals, df, service, usage_values, time_period, reservation_type, variant) ==
    LET service_rows == SelectEq(df, "Service", service)
    IN  IF IsEmpty(service_rows)
        THEN IF variant = "zero item"
             THEN [locals EXCEPT !.service_costs =
                        Append(@, [name |-> service, cost |-> Float(0),
                                   currency |-> locals.currency])]
             ELSE locals
        ELSE
          LET scan == ScanRows(service_rows.rows, usage_values[service],
                               time_period, reservation_type,
                               [min_cost |-> Inf, min_cost_row |-> <<>>,
                                currency |-> locals.currency])
              min_cost_row == scan.min_cost_row[1]
              cost_info == calculate_total_cost(min_cost_row,
                                usage_values[service], time_period,
                                reservation_type)
          IN  [service_costs |->
                    Append(locals.service_costs,
                           [name |-> min_cost_row["Provider"] \o " " \o service,
                            cost |-> cost_info.final_cost,
                            currency |-> cost_info.currency]),
               total_cost |-> IF variant = "overwrite" THEN cost_info.final_cost
                              ELSE FAdd(locals.total_cost, cost_info.final_cost),
               currency |-> IF variant = "first currency" /\ locals.currency # ""
                            THEN locals.currency ELSE scan.currency]

\* faulty variant: a service without rows gets an item of cost 0
simulate_service_ZeroItem(locals, df, service, usage_values, time_period, reservation_type) ==
    SimulateServiceWith(locals, df, service, usage_values, time_period, reservation_type, "zero item")

\* faulty variant: total_cost is assigned, not added to
simulate_service_Overwrite(locals, df, service, usage_values, time_period, reservation_type) ==
    SimulateServiceWith(locals, df, service, usage_values, time_period, reservation_type, "overwrite")

\* faulty variant: the currency of the first included service is kept
simulate_service_FirstCurrency(locals, df, service, usage_values, time_period, reservation_type) ==
    SimulateServiceWith(locals, df, service, usage_values, time_period, reservation_type, "first currency")

\* app.py:307-342: one pass of the loop over selected_services; locals holds
\* service_costs, total_cost and currency
simulate_service(locals, df, service, usage_values, time_period, reservation_type) ==
    LET service_rows == SelectEq(df, "Service", service)
    IN  IF IsEmpty(service_rows) THEN locals
        ELSE
          LET scan == ScanRows(service_rows.rows, usage_values[service],
                               time_period, reservation_type,
                               [min_cost |-> Inf, min_cost_row |-> <<>>,
                                currency |-> locals.currency])
          IN  IF scan.min_cost_row = <<>>
              THEN [locals EXCEPT !.currency = scan.currency]
              ELSE
                LET min_cost_row == scan.min_cost_row[1]
                    cost_info == calculate_total_cost(min_cost_row,
                                    usage_values[service], time_period,
                                    reservation_type)
                IN  [service_costs |->
                        Append(locals.service_costs,
                               [name |-> min_cost_row["Provider"] \o " " \o service,
                                cost |-> cost_info.final_cost,
                                currency |-> cost_info.currency]),
                     total_cost |-> FAdd(locals.total_cost, cost_info.final_cost),
                     currency |-> scan.currency]

----------------------------------------------------------------------------
(* catalogs and inputs *)

MaxRows == 2

FullRow(provider, service, instance_type, region, usage_type, price, units, currency, score, availability, discount_1yr, discount_3yr) ==
    [c \in RequiredColumns \cup OptionalColumns |->
        CASE c = "Provider" -> provider
          [] c = "Service" -> service
          [] c = "Instance Type" -> instance_type
          [] c = "Region" -> region
          [] c = "Usage Type" -> usage_type
          [] c = "Price Per Unit" -> price
          [] c = "Units" -> units
          [] c = "Currency" -> currency
          [] c = "Performance Score" -> score
          [] c = "Availability" -> availability
          [] c = "Reserved Discount 1yr" -> discount_1yr
          [] c = "Reserved Discount 3yr" -> discount_3yr]

\* rows a catalog is drawn from: rows of create_sample_pricing_data, and
\* variations of them (a second vendor of a service, a second currency, a
\* zero performance score)
RowPool ==
    { FullRow("AWS", "S3 Standard", NaN, "US East", "Storage", R(23, 1000),
              "GB/Month", "USD", Float(85), R(9999, 100), Float(20), Float(40)),
      FullRow("Wasabi", "S3 Standard", NaN, "EU West", "Storage", R(24, 1000),
              "GB/Month", "EUR", Float(83), R(9999, 100), Float(20), Float(40)),
      FullRow("Azure", "Blob Storage", NaN, "US East", "Storage", R(18, 1000),
              "GB/Month", "USD", Float(82), R(9999, 100), Float(25), Float(45)),
      FullRow("Google Cloud", "Compute Engine", "e2-micro", "US East", "Compute",
              R(10, 1000), "Hour", "USD", Float(0), R(9999, 100),
              Float(28), Float(58)) }

\* the optional columns a loaded CSV may carry
ColumnSets ==
    { RequiredColumns \cup {"Availability"} \cup opt :
        opt \in SUBSET {"Performance Score", "Reserved Discount 1yr",
                        "Reserved Discount 3yr"} }

Restrict(row, columns) == [c \in columns |-> row[c]]

\* the frames pd.read_csv can yield: 1 to MaxRows rows over one column set
Catalogs ==
    UNION { { [columns |-> cols, rows |-> [i \in 1..n |-> Restrict(full[i], cols)]] :
                full \in [1..n -> RowPool], cols \in ColumnSets } :
            n \in 1..MaxRows }

Providers == {None, "", "All", "AWS"}
Services == {None, "All", "S3 Standard"}
InstanceTypes == {None, "e2-micro"}
Regions == {None, "All", "US East"}
UsageTypes == {"All", "Storage"}
ServiceTypes == {"Storage", "Compute"}
Usages == {Float(0), Float(100)}
Prices == {Float(0), R(18, 1000), R(23, 1000)}
TimePeriods == {"day", "month", "year"}
ReservedInstances == {"on-demand", "1yr", "3yr"}
Costs == {Float(0), R(23, 10), Float(-5)}
Discounts == {Float(0), Float(20), Float(100), Float(150)}

\* a row of a CSV file whose two reserved-discount cells are blank
BlankDiscounts(row) ==
    [c \in DOMAIN row |->
        IF c \in {"Reserved Discount 1yr", "Reserved Discount 3yr"}
        THEN FNaN ELSE row[c]]

\* utils.py:41: catalogs read from a CSV file that has every column and
\* leaves the reserved-discount cells of at least one storage row blank
BlankCatalogs ==
    LET pool == RowPool \cup {BlankDiscounts(row) :
                                row \in {r \in RowPool : r["Usage Type"] = "Storage"}}
    IN  { [columns |-> DOMAIN rows[1], rows |-> rows] :
            rows \in { q \in UNION {[1..n -> pool] : n \in 1..MaxRows} :
                        \E i \in DOMAIN q: q[i] \notin RowPool } }

\* the multiselect's choices, in selection order
SelectedServices ==
    { <<>>, <<"S3 Standard">>, <<"Blob Storage">>,
      <<"S3 Standard", "Blob Storage">>, <<"Blob Storage", "S3 Standard">> }

\* the number inputs' values, per service
UsageProfiles ==
    { [s \in {"S3 Standard", "Blob Storage"} |-> Float(100)],
      [s \in {"S3 Standard", "Blob Storage"} |->
            IF s = "S3 Standard" THEN Float(0) ELSE Float(100)] }

----------------------------------------------------------------------------
(* the state machine: Streamlit runs app.py top to bottom on every        *)
(* interaction: the catalog is loaded, the sidebar filters are applied,   *)
(* then a computation reads the filtered subset.                          *)

\* app.py:84 loads the catalog; app.py:99 starts the subset as a copy of it
Init ==
    /\ pricing_df \in Catalogs
    /\ filtered_df = pricing_df
    /\ op = "load_pricing_data"
    /\ args = <<>>
    /\ result = Return(pricing_df)
    /\ processed = 0

\* app.py:84 when the CSV file has blank reserved-discount cells
InitBlank ==
    /\ pricing_df \in BlankCatalogs
    /\ filtered_df = pricing_df
    /\ op = "load_pricing_data"
    /\ args = <<>>
    /\ result = Return(pricing_df)
    /\ processed = 0

\* the script has reached the tabs: filtered_df is in place
Filtered == op = "filter_pricing_data"

\* faulty variant: the filter narrows the catalog itself
FilterPricingData_InPlace ==
    /\ op = "load_pricing_data"
    /\ \E provider \in Providers, service \in Services,
          instance_type \in InstanceTypes, region \in Regions,
          usage_type \in UsageTypes:
        /\ op' = "filter_pricing_data"
        /\ args' = [provider |-> provider, service |-> service,
                    instance_type |-> instance_type, region |-> region,
                    usage_type |-> usage_type]
        /\ filtered_df' = filter_pricing_data(pricing_df, provider, service,
                                              instance_type, region, usage_type)
        /\ pricing_df' = filtered_df'
        /\ result' = Return(filtered_df')
        /\ UNCHANGED processed

\* app.py:100-105: the sidebar criteria are applied to the catalog
FilterPricingData ==
    /\ op = "load_pricing_data"
    /\ \E provider \in Providers, service \in Services,
          instance_type \in InstanceTypes, region \in Regions,
          usage_type \in UsageTypes:
        /\ op' = "filter_pricing_data"
        /\ args' = [provider |-> provider, service |-> service,
                    instance_type |-> instance_type, region |-> region,
                    usage_type |-> usage_type]
        /\ filtered_df' = filter_pricing_data(pricing_df, provider, service,
                                              instance_type, region, usage_type)
        /\ result' = Return(filtered_df')
        /\ UNCHANGED <<pricing_df, processed>>

CalculateCost ==
    /\ Filtered
    /\ \E usage \in Usages, price \in Prices, time_period \in TimePeriods:
        /\ op' = "calculate_cost"
        /\ args' = [usage |-> usage, price_per_unit |-> price,
                    time_period |-> time_period]
        /\ result' = Return(calculate_cost(usage, price, time_period))
        /\ UNCHANGED <<pricing_df, filtered_df, processed>>

ApplyReservedDiscount ==
    /\ Filtered
    /\ \E cost \in Costs, discount \in Discounts:
        /\ op' = "apply_reserved_discount"
        /\ args' = [cost |-> cost, discount_percentage |-> discount]
        /\ result' = Return(apply_reserved_discount(cost, discount))
        /\ UNCHANGED <<pricing_df, filtered_df, processed>>

CalculateTotalCost ==
    /\ Filtered
    /\ \E i \in 1..Len(filtered_df.rows), usage \in Usages,
       time_period \in TimePeriods, reserved_instance \in ReservedInstances:
        /\ op' = "calculate_total_cost"
        /\ args' = [pricing_row |-> filtered_df.rows[i], usage |-> usage,
                    time_period |-> time_period,
                    reserved_instance |-> reserved_instance]
        /\ result' = Return(calculate_total_cost(filtered_df.rows[i], usage,
                                                 time_period, reserved_instance))
        /\ UNCHANGED <<pricing_df, filtered_df, processed>>

CompareProviders ==
    /\ Filtered
    /\ \E service_type \in ServiceTypes, usage \in Usages, region \in Regions:
        /\ op' = "compare_providers"
        /\ args' = [df |-> filtered_df, service_type |-> service_type,
                    usage_amount |-> usage, region |-> region]
        /\ result' = Return(compare_providers(filtered_df, service_type,
                                              usage, region))
        /\ UNCHANGED <<pricing_df, filtered_df, processed>>

GetPerformanceRatio ==
    /\ Filtered
    /\ \E usage \in Usages:
        /\ op' = "get_performance_ratio"
        /\ args' = [df |-> filtered_df, usage_amount |-> usage]
        /\ result' = get_performance_ratio(filtered_df, usage)
        /\ UNCHANGED <<pricing_df, filtered_df, processed>>

\* app.py:284-298: usage_values has a key for each selected service that
\* has rows in the catalog
UsageValues(selected_services, profile) ==
    [s \in {t \in DOMAIN profile :
                /\ \E i \in 1..Len(selected_services): selected_services[i] = t
                /\ \E i \in 1..Len(pricing_df.rows):
                        pricing_df.rows[i]["Service"] = t} |-> profile[s]]

\* app.py:301-305: "Calculate Total Cost" is clicked
SimulateStart ==
    /\ Filtered
    /\ \E selected_services \in SelectedServices, profile \in UsageProfiles,
          time_period \in TimePeriods, reservation_type \in ReservedInstances:
        \* app.py:261: the multiselect offers the catalog's services only
        /\ \A i \in 1..Len(selected_services):
                \E j \in 1..Len(pricing_df.rows):
                    pricing_df.rows[j]["Service"] = selected_services[i]
        /\ op' = "simulate"
        /\ args' = [filtered_subset |-> filtered_df,
                    selected_services |-> selected_services,
                    usage_values |-> UsageValues(selected_services, profile),
                    time_period |-> time_period,
                    reservation_type |-> reservation_type]
        /\ result' = Return([service_costs |-> <<>>, total_cost |-> Float(0),
                             currency |-> ""])
        /\ processed' = 0
        /\ UNCHANGED <<pricing_df, filtered_df>>

\* the loop is not through selected_services yet
Simulating == op = "simulate" /\ processed < Len(args.selected_services)

\* app.py:307-342: the loop body, for the next selected service
SimulateService ==
    /\ Simulating
    /\ result' = Return(simulate_service(result.value, filtered_df,
                            args.selected_services[processed + 1],
                            args.usage_values, args.time_period,
                            args.reservation_type))
    /\ processed' = processed + 1
    /\ UNCHANGED <<pricing_df, filtered_df, op, args>>

\* the next interaction: the script starts over (app.py:84, app.py:99)
Rerun ==
    /\ op # "load_pricing_data"
    /\ ~Simulating
    /\ op' = "load_pricing_data"
    /\ args' = <<>>
    /\ filtered_df' = pricing_df
    /\ result' = Return(pricing_df)
    /\ processed' = 0
    /\ UNCHANGED pricing_df

Next ==
    \/ Rerun
    \/ FilterPricingData
    \/ CalculateCost
    \/ ApplyReservedDiscount
    \/ CalculateTotalCost
    \/ CompareProviders
    \/ GetPerformanceRatio
    \/ SimulateStart
    \/ SimulateService

Spec == Init /\ [][Next]_vars

\* the same program on catalogs with blank reserved-discount cells
SpecBlank == InitBlank /\ [][Next]_vars

----------------------------------------------------------------------------
(* properties *)

\* the float x equals the fraction n/d (d > 0), by cross-multiplication
RatEq(x, n, d) == x[2] > 0 /\ x[1] * d = n * x[2]

\* a criterion constrains its field unless it is unset or the sentinel "All"
Unconstrained(v) == v = None \/ v = "" \/ v = "All"

Satisfies(row, criteria) ==
    /\ Unconstrained(criteria.provider) \/ row["Provider"] = criteria.provider
    /\ Unconstrained(criteria.service) \/ row["Service"] = criteria.service
    /\ Unconstrained(criteria.instance_type)
            \/ row["Instance Type"] = criteria.instance_type
    /\ Unconstrained(criteria.region) \/ row["Region"] = criteria.region
    /\ Unconstrained(criteria.usage_type) \/ row["Usage Type"] = criteria.usage_type

\* C1: filter returns exactly the catalog rows that satisfy every constraint
\* present in the criteria (AND over provider, service, instance_type, region,
\* usage_type), in catalog order; an unset or "All" criterion constrains nothing.
C1_FilterExactSubset ==
    op = "filter_pricing_data" =>
        /\ result.kind = "return"
        /\ result.value.columns = pricing_df.columns
        /\ result.value.rows =
                SelectSeq(pricing_df.rows, LAMBDA row: Satisfies(row, args))

\* a filter with one real constraint, one "All" and one unset criterion that
\* keeps one catalog row and drops another
C1_Witness ==
    /\ op = "filter_pricing_data"
    /\ args.provider = "AWS" /\ args.region = "US East"
    /\ args.service = "All" /\ args.instance_type = None
    /\ Len(pricing_df.rows) = 2
    /\ Len(result.value.rows) = 1
    /\ result.value.rows[1] = pricing_df.rows[2]

\* C2: for non-negative usage and price, base_cost is usage*price for "month",
\* (usage*price)/30 for "day" and (usage*price)*12 for "year".
C2_BaseCostByPeriod ==
    op = "calculate_cost" =>
        LET n == args.usage[1] * args.price_per_unit[1]
            d == args.usage[2] * args.price_per_unit[2]
        IN  /\ result.kind = "return"
            /\ args.time_period = "month" => RatEq(result.value, n, d)
            /\ args.time_period = "day" => RatEq(result.value, n, d * 30)
            /\ args.time_period = "year" => RatEq(result.value, n * 12, d)

\* 100 units at 0.023 for a day cost 2.3/30
C2_Witness ==
    /\ op = "calculate_cost"
    /\ args.time_period = "day"
    /\ args.usage = Float(100) /\ args.price_per_unit = R(23, 1000)
    /\ result.value = <<23, 300>>

\* C3: apply_discount(cost, d) is cost*(1 - d/100) with no clamping: a discount
\* of 0 returns the cost, a discount of 100 returns 0, and a positive cost with
\* a discount above 100 yields a negative result.
C3_DiscountUnclamped ==
    op = "apply_reserved_discount" =>
        LET c == args.cost
            p == args.discount_percentage
        IN  /\ result.kind = "return"
            /\ RatEq(result.value, c[1] * (100 * p[2] - p[1]), c[2] * 100 * p[2])
            /\ p = Float(0) => result.value = c
            /\ p = Float(100) => result.value = Float(0)
            /\ (FGt(c, Float(0)) /\ FGt(p, Float(100))) => FLt(result.value, Float(0))

\* a cost of 2.3 discounted by 150 percent is -1.15
C3_Witness ==
    /\ op = "apply_reserved_discount"
    /\ args.cost = R(23, 10) /\ args.discount_percentage = Float(150)
    /\ result.value = <<-23, 20>>

\* C4: for every record (also one that carries the 1yr and 3yr discount
\* fields), usage and billing period, total_cost under "on-demand" has
\* discount_percentage 0 and final_cost equal to base_cost(usage, price, period).
C4_OnDemandUndiscounted ==
    (op = "calculate_total_cost" /\ args.reserved_instance = "on-demand") =>
        /\ result.kind = "return"
        /\ result.value.discount_percentage = Float(0)
        /\ result.value.final_cost =
                calculate_cost(args.usage, args.pricing_row["Price Per Unit"],
                               args.time_period)

\* an on-demand yearly cost of a record that carries both discount fields
C4_Witness ==
    /\ op = "calculate_total_cost"
    /\ args.reserved_instance = "on-demand"
    /\ {"Reserved Discount 1yr", "Reserved Discount 3yr"}
            \subseteq DOMAIN args.pricing_row
    /\ args.usage = Float(100) /\ args.time_period = "year"
    /\ args.pricing_row["Price Per Unit"] = R(23, 1000)
    /\ result.value.final_cost = <<138, 5>>

DiscountField(term) ==
    IF term = "1yr" THEN "Reserved Discount 1yr" ELSE "Reserved Discount 3yr"

Qualifies(row, a) ==
    /\ row["Usage Type"] = a.service_type
    /\ Unconstrained(a.region) \/ row["Region"] = a.region

Qualifying == SelectSeq(args.df.rows, LAMBDA row: Qualifies(row, args))

\* C6: compare returns exactly one ComparisonRow for each row of its catalog
\* whose usage_type equals the given one and, when region_filter is set and not
\* "All", whose region equals it; when no row qualifies it returns an empty
\* sequence.
C6_CompareOneRowPerMatch ==
    op = "compare_providers" =>
        LET out == result.value.rows
        IN  /\ result.kind = "return"
            /\ Len(out) = Len(Qualifying)
            /\ \A i \in 1..Len(out):
                \A c \in {"Provider", "Service", "Region", "Currency"}:
                    out[i][c] = Qualifying[i][c]
            /\ Qualifying = <<>> => result.value = EmptyFrame

\* two Storage rows in two regions, compared for "US East": one row comes back
C6_Witness ==
    /\ op = "compare_providers"
    /\ args.service_type = "Storage" /\ args.region = "US East"
    /\ Len(args.df.rows) = 2
    /\ args.df.rows[1]["Region"] = "EU West"
    /\ args.df.rows[1]["Usage Type"] = "Storage"
    /\ Len(result.value.rows) = 1
    /\ result.value.rows[1]["Provider"] = args.df.rows[2]["Provider"]

C8_RatiosAscending ==
    (op = "get_performance_ratio" /\ result.kind = "return") =>
        LET out == result.value.rows
            ratio(i) == out[i]["Price/Performance Ratio"]
        IN  /\ \A i \in 1..(Len(out) - 1): FLe(ratio(i), ratio(i + 1))
            /\ \A i, j \in 1..Len(out):
                (ratio(i) = Inf /\ ratio(j) # Inf) => j < i

\* a zero-score row given first is returned after the finite-ratio row
C8_Witness ==
    /\ op = "get_performance_ratio"
    /\ result.kind = "return"
    /\ "Performance Score" \in args.df.columns
    /\ Len(args.df.rows) = 2
    /\ args.df.rows[1]["Performance Score"] = Float(0)
    /\ Len(result.value.rows) = 2
    /\ result.value.rows[1]["Price/Performance Ratio"] # Inf
    /\ result.value.rows[2]["Price/Performance Ratio"] = Inf
    /\ result.value.rows[2]["Provider"] = args.df.rows[1]["Provider"]

\* the output row of performance_ratios that the input row calls for
IsRatioRowOf(out, row, usage_amount) ==
    LET price == row["Price Per Unit"]
        score == row["Performance Score"]
        cost == out["Cost"]
        ratio == out["Price/Performance Ratio"]
    IN  /\ \A c \in {"Provider", "Service", "Region", "Currency",
                     "Performance Score"}: out[c] = row[c]
        /\ RatEq(cost, usage_amount[1] * price[1], usage_amount[2] * price[2])
        /\ FGt(score, Float(0)) =>
                RatEq(ratio, cost[1] * score[2], cost[2] * score[1])
        /\ score = Float(0) => ratio = Inf

\* C9: for every row of the subset given to performance_ratios, the output row
\* has cost = base_cost(usage_amount, price_per_unit, "month"), ratio =
\* cost / performance_score when the score is > 0, and ratio = +infinity when
\* the score is 0.
C9_RatioPerRow ==
    (op = "get_performance_ratio" /\ "Performance Score" \in args.df.columns) =>
        \A i \in 1..Len(args.df.rows):
            /\ result.kind = "return"
            /\ Len(result.value.rows) = Len(args.df.rows)
            /\ Cardinality({j \in 1..Len(result.value.rows):
                    IsRatioRowOf(result.value.rows[j], args.df.rows[i],
                                 args.usage_amount)})
               = Cardinality({k \in 1..Len(args.df.rows):
                    args.df.rows[k] = args.df.rows[i]})

\* usage 100 over a row priced 0.023 with score 85 and a row with score 0
C9_Witness ==
    /\ op = "get_performance_ratio"
    /\ result.kind = "return"
    /\ "Performance Score" \in args.df.columns
    /\ args.usage_amount = Float(100)
    /\ Len(args.df.rows) = 2
    /\ args.df.rows[1]["Performance Score"] = Float(0)
    /\ args.df.rows[2]["Performance Score"] = Float(85)
    /\ result.value.rows[1]["Cost"] = <<23, 10>>
    /\ result.value.rows[1]["Price/Performance Ratio"] = <<23, 850>>
    /\ result.value.rows[2]["Cost"] = <<1, 1>>
    /\ result.value.rows[2]["Price/Performance Ratio"] = Inf

\* C10: performance_ratios returns an empty sequence whenever no row of the
\* given subset carries a performance score.
C10_EmptyWithoutScores ==
    op = "get_performance_ratio" =>
        ((\A i \in 1..Len(args.df.rows):
                "Performance Score" \notin DOMAIN args.df.rows[i])
            => result = Return(EmptyFrame))

\* the rows of the simulator's subset that carry the service
Matching(service) ==
    SelectSeq(args.filtered_subset.rows, LAMBDA row: row["Service"] = service)

\* the services, of the first n selected, that have a matching row
Included(n) ==
    SelectSeq(SubSeq(args.selected_services, 1, n),
              LAMBDA service: Matching(service) # <<>>)

SimulateDone == op = "simulate" /\ processed = Len(args.selected_services)

FinalCost(row, service) ==
    calculate_total_cost(row, args.usage_values[service], args.time_period,
                         args.reservation_type).final_cost

RECURSIVE SumCosts(_)
SumCosts(items) ==
    IF items = <<>> THEN Float(0)
    ELSE FAdd(SumCosts(SubSeq(items, 1, Len(items) - 1)), items[Len(items)].cost)

\* C13: simulate's total_cost is the sum of the costs of its items, and that
\* holds after each selected service has been processed.
C13_TotalIsSumOfItems ==
    op = "simulate" =>
        result.value.total_cost = SumCosts(result.value.service_costs)

\* two services at 2.30 and 1.80 total 4.10
C13_Witness ==
    /\ SimulateDone
    /\ Len(result.value.service_costs) = 2
    /\ result.value.service_costs[1].cost = <<23, 10>>
    /\ result.value.service_costs[2].cost = <<9, 5>>
    /\ result.value.total_cost = <<41, 10>>

\* C15: after any sequence of filter, total_cost, compare, performance_ratios
\* and simulate calls the catalog holds exactly the rows and field values it
\* held when loaded: no step adds, removes, reorders or modifies a catalog row.
C15_CatalogUnchanged == [][pricing_df' = pricing_df]_vars

\* a simulation has run on a subset the filter made smaller than the catalog
C15_Witness ==
    /\ SimulateDone
    /\ processed > 0
    /\ Len(args.filtered_subset.rows) < Len(pricing_df.rows)
    /\ Len(pricing_df.rows) = MaxRows

\* C16: filter, compare, performance_ratios and simulate, given inputs with no
\* matching rows (an empty row subset included), no performance data or no
\* selected services, return an empty collection and never raise an error.
C16_EmptyResultsNeverRaise ==
    /\ op \in {"filter_pricing_data", "compare_providers",
               "get_performance_ratio", "simulate"} => result.kind = "return"
    /\ (op = "filter_pricing_data"
            /\ \A i \in 1..Len(pricing_df.rows): ~Satisfies(pricing_df.rows[i], args))
        => IsEmpty(result.value)
    /\ (op = "compare_providers" /\ Qualifying = <<>>) => IsEmpty(result.value)
    /\ (op = "get_performance_ratio"
            /\ (IsEmpty(args.df) \/ "Performance Score" \notin args.df.columns))
        => IsEmpty(result.value)
    /\ (op = "simulate" /\ Included(Len(args.selected_services)) = <<>>)
        => result.value.service_costs = <<>>

\* the index, among the service's matching rows, of the row simulate chooses
ChosenIndex(service) ==
    LET rows == Matching(service)
    IN  CHOOSE i \in 1..Len(rows):
            /\ \A j \in 1..Len(rows):
                FLe(FinalCost(rows[i], service), FinalCost(rows[j], service))
            /\ \A j \in 1..(i - 1):
                FLt(FinalCost(rows[i], service), FinalCost(rows[j], service))

C19_ReservedPathsAgree ==
    op = "compare_providers" =>
        \A i \in 1..Len(Qualifying):
            /\ i <= Len(result.value.rows)
            /\ LET row == Qualifying[i]
                   out == result.value.rows[i]
                   final(term) == calculate_total_cost(row, args.usage_amount,
                                                       "month", term).final_cost
               IN  /\ out["On-Demand Cost"] = final("on-demand")
                   /\ out["1-Year Reserved Cost"] = final("1yr")
                   /\ out["3-Year Reserved Cost"] = final("3yr")

\* a row with both discounts, 20 and 40 percent, at usage 100
C19_Witness ==
    /\ op = "compare_providers"
    /\ args.usage_amount = Float(100)
    /\ Len(result.value.rows) >= 1
    /\ {"Reserved Discount 1yr", "Reserved Discount 3yr"} \subseteq args.df.columns
    /\ result.value.rows[1]["On-Demand Cost"] = <<23, 10>>
    /\ result.value.rows[1]["1-Year Reserved Cost"] = <<46, 25>>
    /\ result.value.rows[1]["3-Year Reserved Cost"] = <<69, 50>>
    /\ calculate_total_cost(Qualifying[1], args.usage_amount, "month",
                            "3yr").final_cost = <<69, 50>>

\* a row lacks a discount when the column is missing or its cell is blank
Lacks(row, field) == field \notin DOMAIN row \/ row[field] = FNaN

\* the final cost at which the claim has a row compete: its discounted cost,
\* or its base cost when it lacks the discount of the term
CompetingCost(row, service) ==
    LET field == DiscountField(args.reservation_type)
    IN  IF Lacks(row, field)
        THEN calculate_cost(args.usage_values[service], row["Price Per Unit"],
                            args.time_period)
        ELSE FinalCost(row, service)

\* C18: with reservation_term "1yr" or "3yr" and some rows of a service lacking
\* that discount, simulate still compares every matching row, a row without
\* the discount competing at its undiscounted base cost: the service has an
\* item, its cost is the minimum over the matching rows, and no matching row
\* is dropped from consideration.
C18_NoRowDropped ==
    (SimulateDone /\ args.reservation_type \in {"1yr", "3yr"}) =>
        \A k \in 1..Len(args.selected_services):
            LET service == args.selected_services[k]
                rows == Matching(service)
                items == result.value.service_costs
            IN  rows # <<>> =>
                    \E m \in 1..Len(items), i \in 1..Len(rows):
                        /\ items[m].name = rows[i]["Provider"] \o " " \o service
                        /\ items[m].cost = CompetingCost(rows[i], service)
                        /\ \A j \in 1..Len(rows):
                            FLe(items[m].cost, CompetingCost(rows[j], service))

====
